---------------------------- MODULE Spec2Model ----------------------------
(***************************************************************************)
(* A model of analyze_flight.py: the X-Plane telemetry parser              *)
(* (read_xplane_data), the analyzer (analyze_scenario), the plotter        *)
(* (plot_scenario, with pyplot's implicit current-figure state) and the    *)
(* orchestrator main() with its per-scenario try/except.                   *)
(*                                                                         *)
(* Text.  A line of the input file is modelled by what line.split('|')     *)
(* returns for it: the non-empty sequence of its pieces.  A piece is a     *)
(* string of a small alphabet; str.strip, float() and the substring test   *)
(* 'pitch' in line are tables over that alphabet.                          *)
(*                                                                         *)
(* Numbers.  A float is modelled exactly, as an element (a + b*sqrt(2))/d  *)
(* of Q(sqrt 2), written [a |-> a, b |-> b, d |-> d] with d > 0; NaN is    *)
(* the one value with d = 0.  Integers, the means of integer columns and   *)
(* the quaternions of Euler angles that are multiples of 90 degrees are    *)
(* all of this form.  A standard deviation is kept as the exact radicand   *)
(* of its square root.  Rounding of the floating-point unit is not         *)
(* modelled.                                                               *)
(***************************************************************************)
EXTENDS Integers, Sequences, FiniteSets, TLC

VARIABLES
    fs,           \* the working directory: scenario -> its input file
    idx,          \* position of main()'s for loop in the scenario order
    pc,           \* the statement main() is at
    data,         \* main(): local `data`
    results,      \* main(): local `results`
    exc,          \* the exception in flight inside the try block
    stdout,       \* everything printed, in order
    images,       \* the image files written: scenario -> picture
    all_results,  \* main(): `all_results`
    figs,         \* pyplot: the open figures, number -> figure
    gcf,          \* pyplot: the number of the current figure (0: none)
    faults,       \* the failures the environment caused: scenario -> fault
    arg,          \* the argument of a function applied on its own
    ret,          \* what that function returned or raised
    called        \* whether it has been applied

vars == <<fs, idx, pc, data, results, exc, stdout, images, all_results,
          figs, gcf, faults, arg, ret, called>>

mainVars == <<fs, idx, pc, data, results, exc, stdout, images, all_results,
              figs, gcf, faults>>

fnVars == <<arg, ret, called>>

---------------------------------------------------------------------------
(* Bounds of the model.                                                    *)

\* Longest input file, in lines, the parser is applied to on its own.
MaxLines == 4

\* Largest sample table the statistics are applied to on their own.
MaxRows == 4

\* Largest sample table the whole analysis is applied to on its own.
MaxQuatRows == 2

---------------------------------------------------------------------------
(* Numbers.                                                                *)

Abs(k) == IF k < 0 THEN 0 - k ELSE k

RECURSIVE Gcd(_, _)
Gcd(m, n) == IF n = 0 THEN m ELSE Gcd(n, m % n)

\* (a + b*sqrt(2))/d in lowest terms, d > 0.
Num(a, b, d) ==
    LET g == Gcd(Gcd(Abs(a), Abs(b)), d)
    IN  [a |-> a \div g, b |-> b \div g, d |-> d \div g]

NaN == [a |-> 0, b |-> 0, d |-> 0]

IsNaN(x) == x.d = 0

FromInt(k) == [a |-> k, b |-> 0, d |-> 1]

\* x + y, -x, x - y, x * y and x / n in floating point: NaN propagates.
NumAdd(x, y) ==
    IF IsNaN(x) \/ IsNaN(y) THEN NaN
    ELSE Num(x.a * y.d + y.a * x.d, x.b * y.d + y.b * x.d, x.d * y.d)

NumNeg(x) == IF IsNaN(x) THEN NaN ELSE [a |-> 0 - x.a, b |-> 0 - x.b, d |-> x.d]

NumSub(x, y) == NumAdd(x, NumNeg(y))

NumMul(x, y) ==
    IF IsNaN(x) \/ IsNaN(y) THEN NaN
    ELSE Num(x.a * y.a + 2 * x.b * y.b, x.a * y.b + x.b * y.a, x.d * y.d)

NumDivInt(x, n) == IF IsNaN(x) THEN NaN ELSE Num(x.a, x.b, x.d * n)

\* The order of two rationals (b = 0, neither NaN).
NumLess(x, y) == x.a * y.d < y.a * x.d

\* sqrt(x), kept as its radicand.
NumSqrt(x) == [sqrt |-> x]

---------------------------------------------------------------------------
(* Text: str.strip, float() and the test 'pitch' in line.                  *)

\* The pieces that change under str.strip, with what they become.
Padded == (" " :> "") @@ (" 10 " :> "10") @@ (" 90 " :> "90") @@ ("0 " :> "0")
          @@ (" _pitch,__deg " :> "_pitch,__deg")

Strip(s) == IF s \in DOMAIN Padded THEN Padded[s] ELSE s

\* The stripped pieces float() accepts, with their values.
NumericLit == ("0" :> 0) @@ ("5" :> 5) @@ ("10" :> 10) @@ ("90" :> 90)
              @@ ("-90" :> 0 - 90) @@ ("180" :> 180)
              @@ ("1" :> 1) @@ ("-2" :> 0 - 2) @@ ("3" :> 3)

\* The pieces that have 'pitch' as a substring.
PitchTexts == {"pitch", " _pitch,__deg ", "_pitch,__deg"}

\* line.strip() is truthy: a line of two pieces or more holds a '|'.
NonBlank(line) == Len(line) >= 2 \/ Strip(line[1]) # ""

HasSeparator(line) == Len(line) >= 2

HasPitch(line) == \E i \in 1..Len(line) : line[i] \in PitchTexts

\* (Variant: the test 'pitch' not in line left out.)
IsDataLineKeepsHeader(line) == NonBlank(line) /\ HasSeparator(line)

\* The condition of the list comprehension that builds data_lines.
IsDataLine(line) == NonBlank(line) /\ HasSeparator(line) /\ ~HasPitch(line)

\* [x.strip() for x in line.split('|') if x.strip()]
RECURSIVE Fields(_)
Fields(line) ==
    IF line = <<>> THEN <<>>
    ELSE IF Strip(Head(line)) = "" THEN Fields(Tail(line))
    ELSE <<Strip(Head(line))>> \o Fields(Tail(line))

RECURSIVE SelectLines(_)
SelectLines(lines) ==
    IF lines = <<>> THEN <<>>
    ELSE IF IsDataLine(Head(lines))
         THEN <<Head(lines)>> \o SelectLines(Tail(lines))
         ELSE SelectLines(Tail(lines))

---------------------------------------------------------------------------
(* read_xplane_data.                                                       *)

Columns == <<"pitch", "roll", "heading_true", "heading_mag", "mag_var",
             "mag_comp", "P", "Q", "R">>

NumColumns == Len(Columns)

ColumnIndex(c) == CHOOSE i \in 1..NumColumns : Columns[i] = c

Raise(cls, msg) == [ok |-> FALSE, cls |-> cls, msg |-> msg, val |-> <<>>]

Return(v) == [ok |-> TRUE, cls |-> "", msg |-> "", val |-> v]

\* float(x) for every field of every data line, in order.
AllNumeric(data_lines) ==
    \A i \in 1..Len(data_lines) :
        \A j \in 1..Len(Fields(data_lines[i])) :
            Fields(data_lines[i])[j] \in DOMAIN NumericLit

Values(line) ==
    [j \in 1..Len(Fields(line)) |-> FromInt(NumericLit[Fields(line)[j]])]

MaxWidth(rows) ==
    CHOOSE w \in 0..100 :
        /\ \A i \in 1..Len(rows) : Len(rows[i]) <= w
        /\ \E i \in 1..Len(rows) : Len(rows[i]) = w

\* pandas lays a list of rows out in an array as wide as the longest row
\* and leaves the cells a shorter row does not reach empty (NaN).
Padded9(values) ==
    [c \in {Columns[i] : i \in 1..NumColumns} |->
        IF ColumnIndex(c) <= Len(values) THEN values[ColumnIndex(c)] ELSE NaN]

\* (Variant: a frame cannot be built from no rows.)
DataFrameRejectsEmpty(rows) ==
    IF rows = <<>> \/ MaxWidth(rows) # NumColumns
    THEN Raise("ValueError", "columns passed, passed data had columns")
    ELSE Return([i \in 1..Len(rows) |-> Padded9(rows[i])])

DataFrame(rows) ==
    IF rows = <<>> THEN Return(<<>>)
    ELSE IF MaxWidth(rows) # NumColumns
         THEN Raise("ValueError", "columns passed, passed data had columns")
         ELSE Return([i \in 1..Len(rows) |-> Padded9(rows[i])])

read_xplane_data(file) ==
    IF ~file.exists THEN Raise("FileNotFoundError", "No such file or directory")
    ELSE LET data_lines == SelectLines(file.lines)
         IN  IF ~AllNumeric(data_lines)
             THEN Raise("ValueError", "could not convert string to float")
             ELSE DataFrame([i \in 1..Len(data_lines) |-> Values(data_lines[i])])

---------------------------------------------------------------------------
(* numpy over one column: a non-empty sequence of numbers.                 *)

RECURSIVE SumSeq(_)
SumSeq(col) == IF col = <<>> THEN FromInt(0)
               ELSE NumAdd(Head(col), SumSeq(Tail(col)))

HasNaN(col) == \E i \in 1..Len(col) : IsNaN(col[i])

np_mean(col) == NumDivInt(SumSeq(col), Len(col))

\* np.std: the population standard deviation sqrt(mean(|x - mean|^2)).
np_std(col) ==
    LET m == np_mean(col)
        sq == [i \in 1..Len(col) |->
                  NumMul(NumSub(col[i], m), NumSub(col[i], m))]
    IN  NumSqrt(np_mean(sq))

\* np.max and np.min return NaN as soon as one element is NaN.
np_max(col) ==
    IF HasNaN(col) THEN NaN
    ELSE col[CHOOSE i \in 1..Len(col) :
                 \A j \in 1..Len(col) : ~NumLess(col[i], col[j])]

np_min(col) ==
    IF HasNaN(col) THEN NaN
    ELSE col[CHOOSE i \in 1..Len(col) :
                 \A j \in 1..Len(col) : ~NumLess(col[j], col[i])]

\* np.ptp: max - min.
np_ptp(col) == NumSub(np_max(col), np_min(col))

np_abs(col) ==
    [i \in 1..Len(col) |->
        IF IsNaN(col[i]) THEN NaN
        ELSE IF col[i].a < 0 THEN NumNeg(col[i]) ELSE col[i]]

\* arr[:, j] of a two-dimensional array (j counted from 0, as in the code).
Column(arr, j) == [i \in 1..Len(arr) |-> arr[i][j + 1]]

---------------------------------------------------------------------------
(* scipy's Rotation.from_euler('xyz', angles, degrees=True).as_quat().     *)
(* A quaternion is kept in the library's own layout, <<x, y, z, w>>: the   *)
(* scalar part is last.  cos and sin of half the angle are exact for the   *)
(* multiples of 90 degrees, which is where the model applies them.         *)

Half == Num(0, 1, 2)     \* sqrt(2)/2

CosTable == <<FromInt(1), Half, FromInt(0), NumNeg(Half),
              FromInt(0 - 1), NumNeg(Half), FromInt(0), Half>>

SinTable == <<FromInt(0), Half, FromInt(1), Half,
              FromInt(0), NumNeg(Half), FromInt(0 - 1), NumNeg(Half)>>

\* cos(angle/2) and sin(angle/2), angle in degrees.
HalfCos(angle) == IF IsNaN(angle) THEN NaN
                  ELSE CosTable[((angle.a \div 90) % 8) + 1]

HalfSin(angle) == IF IsNaN(angle) THEN NaN
                  ELSE SinTable[((angle.a \div 90) % 8) + 1]

\* The rotation by `angle` about one axis, as <<x, y, z, w>>.
elementary_quat(axis, angle) ==
    [k \in 1..4 |-> IF k = 4 THEN HalfCos(angle)
                    ELSE IF k = axis THEN HalfSin(angle)
                    ELSE IF IsNaN(angle) THEN NaN ELSE FromInt(0)]

\* The Hamilton product p * q of two quaternions <<x, y, z, w>>.
compose_quat(p, q) ==
    LET M(u, v) == NumMul(u, v)
        S4(t1, t2, t3, t4) == NumAdd(NumAdd(t1, t2), NumAdd(t3, t4))
    IN  << S4(M(p[4], q[1]), M(p[1], q[4]), M(p[2], q[3]), NumNeg(M(p[3], q[2]))),
           S4(M(p[4], q[2]), M(p[2], q[4]), M(p[3], q[1]), NumNeg(M(p[1], q[3]))),
           S4(M(p[4], q[3]), M(p[3], q[4]), M(p[1], q[2]), NumNeg(M(p[2], q[1]))),
           S4(M(p[4], q[4]), NumNeg(M(p[1], q[1])), NumNeg(M(p[2], q[2])),
              NumNeg(M(p[3], q[3]))) >>

\* Lower-case 'xyz': extrinsic rotations, each composed on the left.
from_euler_xyz(angles) ==
    compose_quat(elementary_quat(3, angles[3]),
                 compose_quat(elementary_quat(2, angles[2]),
                              elementary_quat(1, angles[1])))

\* as_quat() with its defaults returns the library's layout unchanged.
as_quat(q) == q

---------------------------------------------------------------------------
(* analyze_scenario.                                                       *)

sample_rate == 5

\* (Variant: the first two columns taken in the order roll, pitch.)
euler_data_swapped(df) ==
    [i \in 1..Len(df) |-> <<df[i].roll, df[i].pitch, df[i].heading_true>>]

euler_data_of(df) ==
    [i \in 1..Len(df) |-> <<df[i].pitch, df[i].roll, df[i].heading_true>>]

angular_rates_of(df) ==
    [i \in 1..Len(df) |-> <<df[i].P, df[i].Q, df[i].R>>]

\* for pitch, roll, yaw in euler_data: from_euler('xyz', [roll, pitch, yaw])
quaternions_of(euler_data) ==
    [i \in 1..Len(euler_data) |->
        as_quat(from_euler_xyz(<<euler_data[i][2], euler_data[i][1],
                                 euler_data[i][3]>>))]

euler_stats(euler_data) ==
    [pitch_mean    |-> np_mean(Column(euler_data, 0)),
     pitch_std     |-> np_std(Column(euler_data, 0)),
     pitch_range   |-> np_ptp(Column(euler_data, 0)),
     roll_mean     |-> np_mean(Column(euler_data, 1)),
     roll_std      |-> np_std(Column(euler_data, 1)),
     roll_range    |-> np_ptp(Column(euler_data, 1)),
     heading_mean  |-> np_mean(Column(euler_data, 2)),
     heading_std   |-> np_std(Column(euler_data, 2)),
     heading_range |-> np_ptp(Column(euler_data, 2))]

rates_stats(angular_rates) ==
    [P_max  |-> np_max(np_abs(Column(angular_rates, 0))),
     Q_max  |-> np_max(np_abs(Column(angular_rates, 1))),
     R_max  |-> np_max(np_abs(Column(angular_rates, 2))),
     P_mean |-> np_mean(Column(angular_rates, 0)),
     Q_mean |-> np_mean(Column(angular_rates, 1)),
     R_mean |-> np_mean(Column(angular_rates, 2))]

quaternion_stats(quaternions) ==
    [w_std |-> np_std(Column(quaternions, 0)),
     x_std |-> np_std(Column(quaternions, 1)),
     y_std |-> np_std(Column(quaternions, 2)),
     z_std |-> np_std(Column(quaternions, 3))]

\* np.arange(len(data)) / self.sample_rate
time_axis(n) == [i \in 1..n |-> NumDivInt(FromInt(i - 1), sample_rate)]

\* An empty table makes euler_data a one-dimensional empty array, and the
\* first euler_data[:, 0] raises IndexError.
analyze_scenario(df, scenario_name) ==
    IF Len(df) = 0
    THEN Raise("IndexError", "too many indices for array")
    ELSE LET euler_data == euler_data_of(df)
             angular_rates == angular_rates_of(df)
             quaternions == quaternions_of(euler_data)
         IN  Return([time          |-> time_axis(Len(df)),
                     euler_data    |-> euler_data,
                     quaternions   |-> quaternions,
                     angular_rates |-> angular_rates,
                     stats         |-> [euler      |-> euler_stats(euler_data),
                                        rates      |-> rates_stats(angular_rates),
                                        quaternion |-> quaternion_stats(quaternions)],
                     scenario      |-> scenario_name])

\* Lines 29-37 and 46-65 alone: the Euler and rate statistics of a table
\* whose angles need not be multiples of 90 degrees.
euler_and_rate_stats(df) ==
    IF Len(df) = 0
    THEN Raise("IndexError", "too many indices for array")
    ELSE Return([euler |-> euler_stats(euler_data_of(df)),
                 rates |-> rates_stats(angular_rates_of(df))])

---------------------------------------------------------------------------
(* The parser applied on its own to every file of at most MaxLines lines.  *)

HeaderLine == <<" _pitch,__deg ", "roll", "hding", "hding", "mavar",
                "mavar", "P", "Q", "R", "">>
BlankLine == <<" ">>
TextLine == <<"5">>
PitchNote == <<"pitch">>
LineA == <<"0", "0 ", "90", "90", "0", "0", "1", "-2", "3", "">>
LineB == <<" 90 ", "-90", "180", "180", "0", "0", "-2", "3", "1">>
ShortLine == <<"90", "0", "90">>
LongLine == <<" 10 ", "0", "0", "0", "0", "0", "0", "0", "0", "0">>
BadLine == <<"0", "0", "abc", "0", "0", "0", "0", "0", "0">>

LineAlphabet == {HeaderLine, BlankLine, TextLine, PitchNote, LineA, LineB,
                 ShortLine, LongLine, BadLine}

SeqsUpTo(S, n) == UNION {[1..k -> S] : k \in 0..n}

File(lines) == [exists |-> TRUE, lines |-> lines]

MissingFile == [exists |-> FALSE, lines |-> <<>>]

Idle == [ok |-> TRUE, cls |-> "", msg |-> "", val |-> <<>>]

MainIdle ==
    /\ fs = <<>> /\ idx = 0 /\ pc = "off" /\ data = <<>> /\ results = <<>>
    /\ exc = Idle /\ stdout = <<>> /\ images = <<>> /\ all_results = <<>>
    /\ figs = <<>> /\ gcf = 0 /\ faults = <<>>

InitParse ==
    /\ MainIdle
    /\ arg \in {MissingFile} \cup {File(l) : l \in SeqsUpTo(LineAlphabet, MaxLines)}
    /\ ret = Idle
    /\ called = FALSE

CallParse ==
    /\ ~called
    /\ ret' = read_xplane_data(arg)
    /\ called' = TRUE
    /\ UNCHANGED <<arg, mainVars>>

SpecParse == InitParse /\ [][CallParse]_vars

---------------------------------------------------------------------------
\* C4: every row of the table read_xplane_data returns holds exactly 9
\* values parsed from its line: a file with a data line whose number of
\* non-empty fields is not 9 is rejected, and no returned row holds a
\* filled-in value.
C4_RowsHoldNineParsedValues ==
    (called /\ ret.ok) =>
        /\ \A i \in 1..Len(arg.lines) :
              IsDataLine(arg.lines[i]) => Len(Fields(arg.lines[i])) = NumColumns
        /\ \A r \in 1..Len(ret.val) :
              \A c \in 1..NumColumns : ~IsNaN(ret.val[r][Columns[c]])

---------------------------------------------------------------------------
\* The lines of the file under `arg` that are not blank once trimmed, hold
\* a '|' and do not hold 'pitch'.
Qualifying ==
    {i \in 1..Len(arg.lines) :
        /\ (Len(arg.lines[i]) > 1 \/ Strip(arg.lines[i][1]) # "")
        /\ Len(arg.lines[i]) > 1
        /\ \A j \in 1..Len(arg.lines[i]) : arg.lines[i][j] \notin PitchTexts}

\* C5: the rows of the table read_xplane_data returns are the data lines
\* of the file, one row each, in file order, where a data line is a line
\* that is non-empty after trimming, holds '|' and does not hold 'pitch';
\* a file of one header line holding 'pitch' followed by n valid 9-field
\* lines parses to exactly n rows.
C5_RowsAreTheDataLines ==
    called =>
        /\ ret.ok =>
              /\ Len(ret.val) = Cardinality(Qualifying)
              /\ \A i \in Qualifying :
                    ret.val[Cardinality({j \in Qualifying : j <= i})]
                        = Padded9(Values(arg.lines[i]))
        /\ (/\ arg.exists
            /\ Len(arg.lines) >= 1
            /\ arg.lines[1] = HeaderLine
            /\ \A i \in 2..Len(arg.lines) : arg.lines[i] \in {LineA, LineB})
           => ret.ok /\ Len(ret.val) = Len(arg.lines) - 1

\* A header line followed by three valid lines has parsed to three rows,
\* the second line of the file first.
C5_Witness ==
    /\ called
    /\ arg = File(<<HeaderLine, LineB, LineA, LineB>>)
    /\ ret.ok
    /\ Len(ret.val) = 3
    /\ ret.val[1].pitch = FromInt(90)
    /\ ret.val[2].pitch = FromInt(0)

---------------------------------------------------------------------------
(* pyplot's global state: the open figures and the current one.  A figure  *)
(* is its title and the panels drawn on it so far.                         *)

FigureNumbers(open) == DOMAIN open

MaxOf(S) == CHOOSE n \in S : \A m \in S : m <= n

\* (Variant: plt.figure(1), which makes an open figure 1 current again
\* instead of opening a new one.)
plt_figure_one(py) ==
    IF 1 \in FigureNumbers(py.figs)
    THEN [figs |-> py.figs, gcf |-> 1]
    ELSE [figs |-> (1 :> [title |-> "", panels |-> <<>>]) @@ py.figs, gcf |-> 1]

\* plt.figure(): a new figure under the next free number becomes current.
plt_figure(py) ==
    LET num == IF FigureNumbers(py.figs) = {} THEN 1
               ELSE MaxOf(FigureNumbers(py.figs)) + 1
    IN  [figs |-> (num :> [title |-> "", panels |-> <<>>]) @@ py.figs,
         gcf  |-> num]

\* fig.suptitle(...): the figure plot_scenario holds is the current one.
suptitle(py, title) ==
    [py EXCEPT !.figs = [py.figs EXCEPT ![py.gcf].title = title]]

\* plt.subplot(...) and the calls on the axes it returns: one more panel
\* on the current figure.
add_panel(py, panel) ==
    [py EXCEPT !.figs =
        [py.figs EXCEPT ![py.gcf].panels = Append(@, panel)]]

\* plt.close(): the current figure is destroyed; the figure opened last
\* among those left, if any, becomes current.
plt_close(py) ==
    LET left == FigureNumbers(py.figs) \ {py.gcf}
    IN  [figs |-> [n \in left |-> py.figs[n]],
         gcf  |-> IF left = {} THEN 0 ELSE MaxOf(left)]

\* plt.savefig(...): the picture written is the current figure.
plt_savefig(py) == py.figs[py.gcf]

---------------------------------------------------------------------------
(* plot_scenario: the three panels, in the order they are drawn.           *)

Series(label, xs, ys) == [label |-> label, x |-> xs, y |-> ys]

Panel(k, res) ==
    CASE k = 1 ->
           [title |-> "Euler Angles",
            lines |-> << Series("Pitch", res.time, Column(res.euler_data, 0)),
                         Series("Roll", res.time, Column(res.euler_data, 1)),
                         Series("Heading", res.time, Column(res.euler_data, 2)) >>]
      [] k = 2 ->
           [title |-> "Quaternion Components",
            lines |-> << Series("w", res.time, Column(res.quaternions, 0)),
                         Series("x", res.time, Column(res.quaternions, 1)),
                         Series("y", res.time, Column(res.quaternions, 2)),
                         Series("z", res.time, Column(res.quaternions, 3)) >>]
      [] k = 3 ->
           [title |-> "Angular Rates",
            lines |-> << Series("P (Roll Rate)", res.time, Column(res.angular_rates, 0)),
                         Series("Q (Pitch Rate)", res.time, Column(res.angular_rates, 1)),
                         Series("R (Yaw Rate)", res.time, Column(res.angular_rates, 2)) >>]

NumPanels == 3

\* The pyplot state after the first k panels of `res` are drawn.
RECURSIVE draw_panels(_, _, _)
draw_panels(py, res, k) ==
    IF k = 0 THEN py
    ELSE add_panel(draw_panels(py, res, k - 1), Panel(k, res))

---------------------------------------------------------------------------
(* main(): what it prints.                                                 *)

Scenarios == <<"cruising", "climbing", "rolling", "descending">>

NumScenarios == Len(Scenarios)

ScenarioSet == {Scenarios[i] : i \in 1..NumScenarios}

EulerKeys == <<"pitch_mean", "pitch_std", "pitch_range", "roll_mean",
               "roll_std", "roll_range", "heading_mean", "heading_std",
               "heading_range">>

RateKeys == <<"P_max", "Q_max", "R_max", "P_mean", "Q_mean", "R_mean">>

QuaternionKeys == <<"w_std", "x_std", "y_std", "z_std">>

\* A printed line: its fixed text, the scenario it names ("" if none) and
\* what else is formatted into it.
Text(text, name) == [text |-> text, scenario |-> name, detail |-> <<>>]

\* print(f"{key}: {value:.6f}"); the value is carried exactly, its
\* six-digit rendering is not modelled.
StatLine(key, value) == [text |-> key, scenario |-> "", detail |-> <<value>>]

StatLines(keys, group) == [i \in 1..Len(keys) |-> StatLine(keys[i], group[keys[i]])]

\* Lines 154-165.
print_statistics(res, name) ==
    <<Text("Statistics:", name), Text("Euler Angles:", "")>>
    \o StatLines(EulerKeys, res.stats.euler)
    \o <<Text("Angular Rates (deg/s):", "")>>
    \o StatLines(RateKeys, res.stats.rates)
    \o <<Text("Quaternion Stability:", "")>>
    \o StatLines(QuaternionKeys, res.stats.quaternion)

---------------------------------------------------------------------------
(* main(): the input files of the four scenarios and its steps.            *)

ValidFile == File(<<HeaderLine, LineA, LineB>>)
NoDataFile == File(<<HeaderLine, BlankLine, TextLine>>)
BadFile == File(<<HeaderLine, LineA, BadLine>>)
ShortFile == File(<<HeaderLine, ShortLine>>)
EmptyFile == File(<<>>)

Files == {MissingFile, ValidFile, NoDataFile, EmptyFile, BadFile, ShortFile}

\* What a library call of the plot or save stage may raise when the
\* environment fails it.
IOErrors == {"FileNotFoundError", "PermissionError"}

\* The classes an except clause matches an exception of each class by.
Bases ==
    ("FileNotFoundError" :> {"FileNotFoundError", "OSError", "Exception"})
    @@ ("PermissionError" :> {"PermissionError", "OSError", "Exception"})
    @@ ("ValueError" :> {"ValueError", "Exception"})
    @@ ("IndexError" :> {"IndexError", "LookupError", "Exception"})
    @@ ("RuntimeError" :> {"RuntimeError", "Exception"})

IsInstance(e, cls) == cls \in Bases[e.cls]

pyplot == [figs |-> figs, gcf |-> gcf]

scenario == Scenarios[idx]

NoFault == [stage |-> "none", cls |-> "", panels |-> 0]

Init ==
    /\ fs \in [ScenarioSet -> Files]
    /\ idx = 0
    /\ pc = "for"
    /\ data = <<>>
    /\ results = <<>>
    /\ exc = Idle
    /\ stdout = <<>>
    /\ images = <<>>
    /\ all_results = <<>>
    /\ figs = <<>>
    /\ gcf = 0
    /\ faults = [s \in ScenarioSet |-> NoFault]
    /\ arg = <<>>
    /\ ret = Idle
    /\ called = FALSE

\* Line 147, the loop takes the next scenario, and line 149.
ForNext ==
    /\ pc = "for"
    /\ idx < NumScenarios
    /\ idx' = idx + 1
    /\ stdout' = Append(stdout, Text("Analyzing scenario...", Scenarios[idx + 1]))
    /\ pc' = "read"
    /\ UNCHANGED <<fs, data, results, exc, images, all_results, figs, gcf,
                   faults, fnVars>>

\* Line 147, the loop is exhausted: main() returns.
ForEnd ==
    /\ pc = "for"
    /\ idx = NumScenarios
    /\ pc' = "done"
    /\ UNCHANGED <<fs, idx, data, results, exc, stdout, images, all_results,
                   figs, gcf, faults, fnVars>>

\* Line 150.
Read ==
    /\ pc = "read"
    /\ LET r == read_xplane_data(fs[scenario])
       IN  IF r.ok
           THEN data' = r.val /\ pc' = "analyze" /\ exc' = exc
           ELSE data' = data /\ pc' = "except" /\ exc' = r
    /\ UNCHANGED <<fs, idx, results, stdout, images, all_results, figs, gcf,
                   faults, fnVars>>

\* (Variant: line 172 placed right after line 151.)
AnalyzeAndStore ==
    /\ pc = "analyze"
    /\ LET r == analyze_scenario(data, scenario)
       IN  IF r.ok
           THEN /\ results' = r.val /\ pc' = "print" /\ exc' = exc
                /\ all_results' = (scenario :> r.val) @@ all_results
           ELSE /\ results' = results /\ pc' = "except" /\ exc' = r
                /\ all_results' = all_results
    /\ UNCHANGED <<fs, idx, data, stdout, images, figs, gcf, faults, fnVars>>

\* Line 151.
Analyze ==
    /\ pc = "analyze"
    /\ LET r == analyze_scenario(data, scenario)
       IN  IF r.ok
           THEN results' = r.val /\ pc' = "print" /\ exc' = exc
           ELSE results' = results /\ pc' = "except" /\ exc' = r
    /\ UNCHANGED <<fs, idx, data, stdout, images, all_results, figs, gcf,
                   faults, fnVars>>

\* Lines 154-165.
PrintStatistics ==
    /\ pc = "print"
    /\ stdout' = stdout \o print_statistics(results, scenario)
    /\ pc' = "plot"
    /\ UNCHANGED <<fs, idx, data, results, exc, images, all_results, figs,
                   gcf, faults, fnVars>>

\* Line 168, into plot_scenario: lines 85-86.
PlotFigure ==
    /\ pc = "plot"
    /\ LET p == suptitle(plt_figure(pyplot), results.scenario)
       IN  figs' = p.figs /\ gcf' = p.gcf
    /\ pc' = "draw"
    /\ UNCHANGED <<fs, idx, data, results, exc, stdout, images, all_results,
                   faults, fnVars>>

\* Lines 88-133: the three panels and tight_layout, all done.
PlotDraw ==
    /\ pc = "draw"
    /\ LET p == draw_panels(pyplot, results, NumPanels)
       IN  figs' = p.figs /\ gcf' = p.gcf
    /\ pc' = "save"
    /\ UNCHANGED <<fs, idx, data, results, exc, stdout, images, all_results,
                   faults, fnVars>>

\* Lines 88-133, a call raises with k panels drawn (k = 3: tight_layout).
PlotDrawRaises ==
    /\ pc = "draw"
    /\ \E k \in 0..NumPanels :
          /\ LET p == draw_panels(pyplot, results, k)
             IN  figs' = p.figs /\ gcf' = p.gcf
          /\ faults' = [faults EXCEPT ![scenario] =
                           [stage |-> "draw", cls |-> "RuntimeError", panels |-> k]]
    /\ exc' = Raise("RuntimeError", "plot failed")
    /\ pc' = "except"
    /\ UNCHANGED <<fs, idx, data, results, stdout, images, all_results, fnVars>>

\* Line 169.
Savefig ==
    /\ pc = "save"
    /\ images' = (scenario :> plt_savefig(pyplot)) @@ images
    /\ pc' = "close"
    /\ UNCHANGED <<fs, idx, data, results, exc, stdout, all_results, figs,
                   gcf, faults, fnVars>>

\* Line 169, the file cannot be written: savefig raises an OSError.
SavefigRaises ==
    /\ pc = "save"
    /\ \E cls \in IOErrors :
          /\ exc' = Raise(cls, "save failed")
          /\ faults' = [faults EXCEPT ![scenario] =
                           [stage |-> "save", cls |-> cls, panels |-> NumPanels]]
    /\ pc' = "except"
    /\ UNCHANGED <<fs, idx, data, results, stdout, images, all_results, figs,
                   gcf, fnVars>>

\* Line 170.
Close ==
    /\ pc = "close"
    /\ LET p == plt_close(pyplot)
       IN  figs' = p.figs /\ gcf' = p.gcf
    /\ pc' = "store"
    /\ UNCHANGED <<fs, idx, data, results, exc, stdout, images, all_results,
                   faults, fnVars>>

\* Line 172.
Store ==
    /\ pc = "store"
    /\ all_results' = (scenario :> results) @@ all_results
    /\ pc' = "for"
    /\ UNCHANGED <<fs, idx, data, results, exc, stdout, images, figs, gcf,
                   faults, fnVars>>

\* Lines 174-176.
ExceptFileNotFound ==
    /\ pc = "except"
    /\ IsInstance(exc, "FileNotFoundError")
    /\ stdout' = Append(stdout, Text("Warning: Data file not found", scenario))
    /\ exc' = Idle
    /\ pc' = "for"
    /\ UNCHANGED <<fs, idx, data, results, images, all_results, figs, gcf,
                   faults, fnVars>>

\* (Variant: the second handler written `except ValueError`.)
ExceptValueError ==
    /\ pc = "except"
    /\ ~IsInstance(exc, "FileNotFoundError")
    /\ IsInstance(exc, "ValueError")
    /\ stdout' = Append(stdout, [text |-> "Error analyzing", scenario |-> scenario,
                                 detail |-> <<exc.msg>>])
    /\ exc' = Idle
    /\ pc' = "for"
    /\ UNCHANGED <<fs, idx, data, results, images, all_results, figs, gcf,
                   faults, fnVars>>

\* Lines 177-179.
ExceptException ==
    /\ pc = "except"
    /\ ~IsInstance(exc, "FileNotFoundError")
    /\ IsInstance(exc, "Exception")
    /\ stdout' = Append(stdout, [text |-> "Error analyzing", scenario |-> scenario,
                                 detail |-> <<exc.msg>>])
    /\ exc' = Idle
    /\ pc' = "for"
    /\ UNCHANGED <<fs, idx, data, results, images, all_results, figs, gcf,
                   faults, fnVars>>

Next ==
    \/ ForNext
    \/ ForEnd
    \/ Read
    \/ Analyze
    \/ PrintStatistics
    \/ PlotFigure
    \/ PlotDraw
    \/ PlotDrawRaises
    \/ Savefig
    \/ SavefigRaises
    \/ Close
    \/ Store
    \/ ExceptFileNotFound
    \/ ExceptException

Spec == Init /\ [][Next]_vars

---------------------------------------------------------------------------
(* What a run of main() shows: the sections of its output, one per         *)
(* scenario attempted, and the files it left.                              *)

Starts == {i \in 1..Len(stdout) : stdout[i].text = "Analyzing scenario..."}

StartOf(k) == CHOOSE i \in Starts : Cardinality({j \in Starts : j <= i}) = k

EndOf(k) == IF k < Cardinality(Starts) THEN StartOf(k + 1) - 1 ELSE Len(stdout)

\* Everything printed during the k-th iteration of the loop.
Section(k) == SubSeq(stdout, StartOf(k), EndOf(k))

\* The scenarios attempted so far, in the order they were announced.
Attempted == [k \in 1..Cardinality(Starts) |-> stdout[StartOf(k)].scenario]

\* The k-th iteration of the loop has ended.
Finished(k) == k < idx \/ (k = idx /\ pc \in {"for", "done"})

Count(text, name) ==
    Cardinality({i \in 1..Len(stdout) :
                    stdout[i].text = text /\ stdout[i].scenario = name})

Warnings(name) == Count("Warning: Data file not found", name)

Errors(name) == Count("Error analyzing", name)

\* The statistics lines of a section: those that carry a value.
RECURSIVE StatisticsIn(_)
StatisticsIn(lines) ==
    IF lines = <<>> THEN <<>>
    ELSE IF Head(lines).text \in {"Statistics:", "Euler Angles:",
                                  "Angular Rates (deg/s):", "Quaternion Stability:"}
            \/ (Head(lines).scenario = "" /\ Head(lines).detail # <<>>)
         THEN <<Head(lines)>> \o StatisticsIn(Tail(lines))
         ELSE StatisticsIn(Tail(lines))

\* Every stage of the scenario completes: its file parses, the table
\* analyzes and the environment fails neither the plot nor the save.
\* (The two library stages are tabulated once per file.)
ParsesAndAnalyzes ==
    [f \in Files |->
        /\ read_xplane_data(f).ok
        /\ analyze_scenario(read_xplane_data(f).val, "").ok] @@ <<>>

Completes(name) == ParsesAndAnalyzes[fs[name]] /\ faults[name] = NoFault

---------------------------------------------------------------------------
\* The statements main() still has to go through, at most: ten per
\* scenario not yet taken from the loop, plus those left of the iteration
\* under way.
StepsLeft ==
    (NumScenarios - idx) * 10
    + CASE pc = "for" -> 0
        [] pc = "read" -> 8
        [] pc = "analyze" -> 7
        [] pc = "print" -> 6
        [] pc = "plot" -> 5
        [] pc = "draw" -> 4
        [] pc = "save" -> 3
        [] pc = "close" -> 2
        [] pc = "store" -> 1
        [] pc = "except" -> 1
        [] pc = "done" -> 0 - 1

\* C1: whatever the outcome of each scenario, main() attempts the four
\* scenarios once each in the order cruising, climbing, rolling,
\* descending, and then returns normally: at every moment the scenarios
\* attempted are the first idx of that order; between the calls of the
\* parser and the analyzer (which return or raise) a next statement can
\* always be executed, so that no exception, whatever its class, leaves
\* the loop; every statement executed brings the return nearer; and when
\* main() has returned all four have been attempted.
C1_AttemptsAllThenReturns ==
    /\ [](/\ Attempted = SubSeq(Scenarios, 1, idx)
          /\ (pc = "done" => Attempted = Scenarios)
          /\ (pc \notin {"done", "read", "analyze"} => ENABLED Next))
    /\ [][StepsLeft' < StepsLeft]_vars

\* main() has returned after a missing file, then a parse error, then a
\* failed save, and the last scenario was still attempted and succeeded.
C1_Witness ==
    /\ pc = "done"
    /\ Attempted = Scenarios
    /\ ~fs["cruising"].exists
    /\ fs["climbing"] = BadFile
    /\ faults["rolling"].stage = "save"
    /\ "descending" \in DOMAIN all_results

---------------------------------------------------------------------------
\* C2: every scenario whose iteration has ended is reported according to
\* its cause: a missing input file by exactly one MissingFile warning and
\* no error, any other failure by exactly one AnalysisError report and no
\* warning, a success by neither.
C2_ReportMatchesCause ==
    \A k \in 1..NumScenarios :
        Finished(k) =>
            LET name == Scenarios[k]
            IN  IF ~fs[name].exists
                THEN Warnings(name) = 1 /\ Errors(name) = 0
                ELSE IF name \notin DOMAIN all_results
                THEN Warnings(name) = 0 /\ Errors(name) = 1
                ELSE Warnings(name) = 0 /\ Errors(name) = 0

---------------------------------------------------------------------------
\* C6: a scenario that failed at any stage has no image file and no entry
\* in all_results, and an image or an entry exists only for a scenario
\* every stage of which completed: once its iteration has ended, the image
\* and the entry exist exactly when every stage completed, and exactly
\* when nothing was reported for it.
C6_NoPartialResults ==
    /\ \A k \in 1..NumScenarios :
          LET name == Scenarios[k]
          IN  /\ name \in DOMAIN images \cup DOMAIN all_results =>
                    /\ k <= idx
                    /\ Completes(name)
                    /\ Warnings(name) + Errors(name) = 0
              /\ Finished(k) =>
                    /\ name \in DOMAIN images <=> Completes(name)
                    /\ name \in DOMAIN all_results <=> Completes(name)
                    /\ Warnings(name) + Errors(name) = 0 <=> Completes(name)

\* One scenario failed while saving and left nothing; another completed
\* and left both its image and its entry.
C6_Witness ==
    /\ pc = "done"
    /\ faults["cruising"].stage = "save"
    /\ "cruising" \notin DOMAIN images \cup DOMAIN all_results
    /\ faults["climbing"].stage = "draw"
    /\ "climbing" \notin DOMAIN images \cup DOMAIN all_results
    /\ "rolling" \in DOMAIN images \cap DOMAIN all_results

---------------------------------------------------------------------------
(* A scenario processed alone, in a fresh process: what it prints and      *)
(* leaves, from its own file and the failures of its own plot and save.    *)

FreshPy == [figs |-> <<>>, gcf |-> 0]

ErrorReport(name, e) ==
    IF IsInstance(e, "FileNotFoundError")
    THEN Text("Warning: Data file not found", name)
    ELSE [text |-> "Error analyzing", scenario |-> name, detail |-> <<e.msg>>]

Alone(file, fault, name) ==
    LET hello == <<Text("Analyzing scenario...", name)>>
        table == read_xplane_data(file)
        res == analyze_scenario(table.val, name)
        failed(printed, e) == [printed |-> printed \o <<ErrorReport(name, e)>>,
                               image |-> <<>>, stored |-> <<>>]
    IN  IF ~table.ok THEN failed(hello, table)
        ELSE IF ~res.ok THEN failed(hello, res)
        ELSE LET printed == hello \o print_statistics(res.val, name)
                 drawn == draw_panels(suptitle(plt_figure(FreshPy), name),
                                      res.val, NumPanels)
             IN  IF fault.stage = "draw"
                 THEN failed(printed, Raise(fault.cls, "plot failed"))
                 ELSE IF fault.stage = "save"
                 THEN failed(printed, Raise(fault.cls, "save failed"))
                 ELSE [printed |-> printed,
                       image |-> <<plt_savefig(drawn)>>,
                       stored |-> <<res.val>>]

Faults ==
    {NoFault}
    \cup {[stage |-> "draw", cls |-> "RuntimeError", panels |-> k] : k \in 0..NumPanels}
    \cup {[stage |-> "save", cls |-> c, panels |-> NumPanels] : c \in IOErrors}

\* Alone, tabulated once over the files, faults and names of the model.
AloneTable ==
    [x \in Files \X Faults \X ScenarioSet |-> Alone(x[1], x[2], x[3])] @@ <<>>

\* What the run shows of its k-th scenario.
Observed(k) ==
    LET name == Scenarios[k]
    IN  [printed |-> Section(k),
         image |-> IF name \in DOMAIN images THEN <<images[name]>> ELSE <<>>,
         stored |-> IF name \in DOMAIN all_results THEN <<all_results[name]>>
                    ELSE <<>>]

\* C7: the outcome of a scenario (what is printed for it, its error kind,
\* the picture written to its image file) depends on its own input file
\* alone, not on the other three scenarios: whatever came before it in the
\* run, it is the outcome of that scenario processed alone in a fresh
\* process on the same file, so two runs that agree on the file of a
\* scenario (and on the failures of its own plot and save) agree on its
\* outcome.
C7_OutcomeFromOwnFile ==
    \A k \in 1..NumScenarios :
        Finished(k) =>
            Observed(k) =
                AloneTable[<<fs[Scenarios[k]], faults[Scenarios[k]], Scenarios[k]>>]

\* A scenario succeeded right after one that left its figure open and one
\* whose file was missing.
C7_Witness ==
    /\ Finished(3)
    /\ faults["cruising"].stage = "draw"
    /\ faults["cruising"].panels = 2
    /\ ~fs["climbing"].exists
    /\ "rolling" \in DOMAIN images
    /\ Len(images["rolling"].panels) = NumPanels

---------------------------------------------------------------------------
\* C9: when an iteration of the loop has ended, by success or by failure
\* at any stage, and when main() has returned, no figure is open.
C9_NoFigureLeftOpen ==
    pc \in {"for", "done"} => DOMAIN figs = {}

---------------------------------------------------------------------------
\* C10: a scenario whose file exists and holds no data line parses to a
\* table of zero rows, fails in analyze_scenario and is reported as an
\* AnalysisError and not as a missing file; no statistics are printed for
\* it, no image is written, and the scenarios after it are still
\* attempted.
C10_NoDataIsAnalysisError ==
    \A k \in 1..NumScenarios :
        LET name == Scenarios[k]
        IN  (/\ Finished(k)
             /\ fs[name].exists
             /\ \A i \in 1..Len(fs[name].lines) : ~IsDataLine(fs[name].lines[i]))
            =>
            /\ read_xplane_data(fs[name]) = Return(<<>>)
            /\ ~analyze_scenario(<<>>, name).ok
            /\ Errors(name) = 1
            /\ Warnings(name) = 0
            /\ StatisticsIn(Section(k)) = <<>>
            /\ name \notin DOMAIN images
            /\ (pc = "done" => Attempted = Scenarios)
            /\ (k < idx => Attempted[k + 1] = Scenarios[k + 1])

\* A header-only file and an empty file were reported as analysis errors
\* and the scenario after them went on to write its image.
C10_Witness ==
    /\ pc = "done"
    /\ fs["cruising"] = NoDataFile
    /\ fs["climbing"] = EmptyFile
    /\ Errors("cruising") = 1
    /\ Errors("climbing") = 1
    /\ "rolling" \in DOMAIN images

---------------------------------------------------------------------------
(* The Euler and rate statistics applied on their own to every table of at *)
(* most MaxRows rows drawn from StatRows.                                  *)

Row(pitch, roll, heading, P, Q, R) ==
    [pitch |-> FromInt(pitch), roll |-> FromInt(roll),
     heading_true |-> FromInt(heading), heading_mag |-> FromInt(heading),
     mag_var |-> FromInt(0), mag_comp |-> FromInt(0),
     P |-> FromInt(P), Q |-> FromInt(Q), R |-> FromInt(R)]

StatRows == {Row(p, 0, 90, 1, 0 - 2, 3) : p \in {0, 10, 0 - 10, 5}}
            \cup {Row(p, 0 - 10, 180, 0 - 2, 3, 1) : p \in {0, 10, 0 - 10, 5}}

InitStats ==
    /\ MainIdle
    /\ arg \in SeqsUpTo(StatRows, MaxRows)
    /\ ret = Idle
    /\ called = FALSE

CallStats ==
    /\ ~called
    /\ ret' = euler_and_rate_stats(arg)
    /\ called' = TRUE
    /\ UNCHANGED <<arg, mainVars>>

SpecStats == InitStats /\ [][CallStats]_vars

---------------------------------------------------------------------------
(* Mean, range and largest magnitude of a column of integers, stated       *)
(* without the operators of the model.                                     *)

RECURSIVE IntSum(_)
IntSum(col) == IF col = <<>> THEN 0 ELSE Head(col) + IntSum(Tail(col))

IntColumn(c) == [i \in 1..Len(arg) |-> arg[i][c].a]

IsMeanOf(m, col) == m.b = 0 /\ m.d > 0 /\ m.a * Len(col) = IntSum(col) * m.d

IsRangeOf(r, col) ==
    \E i, j \in 1..Len(col) :
        /\ r = FromInt(col[i] - col[j])
        /\ \A k \in 1..Len(col) : col[j] <= col[k] /\ col[k] <= col[i]

IsMaxAbsOf(x, col) ==
    \E i \in 1..Len(col) :
        /\ x = FromInt(Abs(col[i]))
        /\ \A k \in 1..Len(col) : Abs(col[k]) <= Abs(col[i])

\* C8: on every non-empty table, pitch_mean is the arithmetic mean and
\* pitch_range the maximum minus the minimum of the whole pitch column,
\* likewise roll_* of the roll column and heading_* of the heading_true
\* column, and P_max, Q_max, R_max are the largest absolute values of the
\* P, Q, R columns; pitch values 0, 10, -10, 5 give mean 1.25 and range 20.
C8_EulerAndRateStatistics ==
    (called /\ Len(arg) > 0) =>
        /\ ret.ok
        /\ IsMeanOf(ret.val.euler.pitch_mean, IntColumn("pitch"))
        /\ IsRangeOf(ret.val.euler.pitch_range, IntColumn("pitch"))
        /\ IsMeanOf(ret.val.euler.roll_mean, IntColumn("roll"))
        /\ IsRangeOf(ret.val.euler.roll_range, IntColumn("roll"))
        /\ IsMeanOf(ret.val.euler.heading_mean, IntColumn("heading_true"))
        /\ IsRangeOf(ret.val.euler.heading_range, IntColumn("heading_true"))
        /\ IsMaxAbsOf(ret.val.rates.P_max, IntColumn("P"))
        /\ IsMaxAbsOf(ret.val.rates.Q_max, IntColumn("Q"))
        /\ IsMaxAbsOf(ret.val.rates.R_max, IntColumn("R"))
        /\ IntColumn("pitch") = <<0, 10, 0 - 10, 5>> =>
              /\ ret.val.euler.pitch_mean = [a |-> 5, b |-> 0, d |-> 4]
              /\ ret.val.euler.pitch_range = FromInt(20)

\* The statistics of a table with pitch 0, 10, -10, 5 and two distinct
\* rolls: pitch_mean 5/4, pitch_range 20, roll_range 10.
C8_Witness ==
    /\ called
    /\ IntColumn("pitch") = <<0, 10, 0 - 10, 5>>
    /\ IntColumn("roll") = <<0, 0 - 10, 0, 0>>
    /\ ret.val.euler.pitch_mean = [a |-> 5, b |-> 0, d |-> 4]
    /\ ret.val.euler.pitch_range = FromInt(20)
    /\ ret.val.euler.roll_range = FromInt(10)
    /\ ret.val.rates.P_max = FromInt(2)

---------------------------------------------------------------------------
(* analyze_scenario applied on its own to every table of at most           *)
(* MaxQuatRows rows whose angles are multiples of 90 degrees.              *)

\* The row pandas fills in for a data line of one field, "0|".
NaNRow == Padded9(<<FromInt(0)>>)

QuatRows == {Row(p, r, h, 1, 0 - 2, 3) :
                p \in {0, 90}, r \in {0, 0 - 90, 180}, h \in {0, 90, 180}}
            \cup {NaNRow}

InitAnalyze ==
    /\ MainIdle
    /\ arg \in SeqsUpTo(QuatRows, MaxQuatRows)
    /\ ret = Idle
    /\ called = FALSE

CallAnalyze ==
    /\ ~called
    /\ ret' = analyze_scenario(arg, "cruising")
    /\ called' = TRUE
    /\ UNCHANGED <<arg, mainVars>>

SpecAnalyze == InitAnalyze /\ [][CallAnalyze]_vars

---------------------------------------------------------------------------
(* The unit quaternion of roll about x, then pitch about y, then yaw about *)
(* z (fixed axes), in closed form: its scalar part w and vector part.      *)

Mul3(x, y, z) == NumMul(NumMul(x, y), z)

ScalarPart(roll, pitch, yaw) ==
    NumAdd(Mul3(HalfCos(roll), HalfCos(pitch), HalfCos(yaw)),
           Mul3(HalfSin(roll), HalfSin(pitch), HalfSin(yaw)))

VectorPart(roll, pitch, yaw) ==
    << NumSub(Mul3(HalfSin(roll), HalfCos(pitch), HalfCos(yaw)),
              Mul3(HalfCos(roll), HalfSin(pitch), HalfSin(yaw))),
       NumAdd(Mul3(HalfCos(roll), HalfSin(pitch), HalfCos(yaw)),
              Mul3(HalfSin(roll), HalfCos(pitch), HalfSin(yaw))),
       NumSub(Mul3(HalfCos(roll), HalfCos(pitch), HalfSin(yaw)),
              Mul3(HalfSin(roll), HalfSin(pitch), HalfCos(yaw))) >>

\* C3: in the quaternion series analyze_scenario returns, component 0 of
\* every sample is the scalar part w and components 1, 2, 3 are the
\* vector part x, y, z, so that w_std is the deviation of the w series.
C3_ScalarPartFirst ==
    (called /\ ret.ok) =>
        /\ \A i \in 1..Len(arg) :
              LET q == ret.val.quaternions[i]
                  w == ScalarPart(arg[i].roll, arg[i].pitch, arg[i].heading_true)
                  v == VectorPart(arg[i].roll, arg[i].pitch, arg[i].heading_true)
              IN  q[1] = w /\ q[2] = v[1] /\ q[3] = v[2] /\ q[4] = v[3]
        /\ ret.val.stats.quaternion.w_std =
              np_std([i \in 1..Len(arg) |->
                         ScalarPart(arg[i].roll, arg[i].pitch, arg[i].heading_true)])

=============================================================================
